---- MODULE Spec2Model ----
(***************************************************************************)
(* Model of ocpp::chargepoint::TransactionManager                          *)
(* (src/src/chargepoint/transaction/TransactionManager.cpp).               *)
(*                                                                         *)
(* Event threads call startTransaction / stopTransaction, the worker pool  *)
(* runs processFifoRequest jobs, the retry timer and the connection-up     *)
(* notification schedule such jobs.  Every step is one stretch of code     *)
(* between two points where another thread can observe or change the       *)
(* shared state (a message-sender call, a FIFO operation, a connector      *)
(* mutex section).                                                         *)
(*                                                                         *)
(* The state is the state TransactionManager reads and writes: its own     *)
(* members, the connectors, the FIFO, the link and the registration        *)
(* status.  What the other managers keep for themselves (authorization     *)
(* cache, charging profiles, meter sampling) is not read back by this      *)
(* code and is not part of the state; the calls a thread makes to them,    *)
(* the requests it hands to the message sender and the answers it gets     *)
(* are kept in the record of the thread.                                   *)
(*                                                                         *)
(* Spec is the manager with its event thread, its two pool workers and     *)
(* the timer.  DurableSpec is the FIFO engine started over a database      *)
(* that holds requests, with crashes, under fair workers and timer.        *)
(* CallSpec is startTransaction and stopTransaction called by two event    *)
(* threads at once, on connectors in any status.  LockSpec is the same     *)
(* two threads with the connector mutex sections taken step by step        *)
(* (lock, write and save, unlock).  RemoteSpec is the two handlers of      *)
(* remote requests over every state of two connectors.                     *)
(***************************************************************************)
EXTENDS Integers, Sequences, FiniteSets, TLC

\* ---------------------------------------------------------------- bounds
\* Number of entries that can be appended to the FIFO over one behaviour.
MaxEntries == 2
\* Number of processFifoRequest jobs the worker pool queue can hold.
MaxJobs == 1
\* m_ocpp_config.transactionMessageAttempts()
TransactionMessageAttempts == 1

\* ------------------------------------------------------------ value sets
Workers == {"w1", "w2"}
Threads == {"t1"}
\* Connectors known to m_connectors; 0 is the charge point itself.
ConnectorIds == {0, 1}
\* connector_id values a caller can pass (2 is not a connector).
RequestedIds == {0, 1, 2}
IdTags == {"TAG01"}
\* transactionId values the central system hands out.
TxIds == {42}
\* The code tells Accepted from every other status, of which Pending is one.
RegistrationStatus == {"Accepted", "Pending"}
AuthorizationStatus == {"Accepted", "Blocked", "Invalid", "ConcurrentTx"}
\* idTagInfo.status values the central system answers with.
ResponseStatuses == {"Accepted", "Blocked"}
CallResult == {"Ok", "Failed"}

START_TRANSACTION_ACTION == "StartTransaction"
STOP_TRANSACTION_ACTION == "StopTransaction"
METER_VALUES_ACTION == "MeterValues"
\* Connectors::CONNECTOR_ID_CHARGE_POINT
CONNECTOR_ID_CHARGE_POINT == 0
\* DateTime::now(), every instant after the epoch being the same to the code
Now == 1
\* m_events_handler.getTxStartStopMeterValue(): the readings of a meter that
\* counts, and the reading of a meter where no energy has flowed yet.
MeterValues == {100, 250}
SteadyMeterValues == {100}
\* ChargePointStatus values a connector is given by the status manager.
ConnectorStatuses == {"Available", "Reserved", "Unavailable"}
\* reservation_id of a reserved connector (the connector id plus 6)
ReservationIdOf(connector_id) == connector_id + 6

VARIABLES
    connected,      \* m_msg_sender.isConnected()
    regStatus,      \* m_status_manager.getRegistrationStatus()
    fifo,           \* m_requests_fifo (persistent)
    nextSeq,        \* sequence number of the next FIFO row (persistent)
    retryCount,     \* m_request_retry_count
    timerArmed,     \* m_request_retry_timer.isStarted()
    poolJobs,       \* processFifoRequest jobs queued in m_worker_pool
    dr,             \* the worker threads: position in processFifoRequest and its locals
    th,             \* the event threads: position in start/stopTransaction and locals
    connectors,     \* m_connectors (persistent)
    reserveConnectorZeroSupported,  \* m_ocpp_config.reserveConnectorZeroSupported()
    attempts        \* sends made for the entry now at the head of the FIFO (history)

vars == <<connected, regStatus, fifo, nextSeq, retryCount, timerArmed, poolJobs,
          dr, th, connectors, reserveConnectorZeroSupported, attempts>>

\* ------------------------------------------------------------ records
NoEntry ==
    [action |-> "none", connectorId |-> 0, idTag |-> "", transactionId |-> 0,
     reservationId |-> 0, reason |-> "", meter |-> 0, seq |-> 0]

IdleDrainer ==
    [pc |-> "idle", head |-> NoEntry, res |-> "none", status |-> "none",
     transactionId |-> 0, count |-> 0, deauth |-> 0]

IdleThread ==
    [pc |-> "idle", op |-> "none", connector_id |-> 0, id_tag |-> "",
     reservationId |-> 0, transactionId |-> 0, ret |-> "none", result |-> "none",
     meter |-> 0, sent |-> <<>>, calls |-> {}, notified |-> {}, held |-> 0,
     verdict |-> "none", handler |-> "none", profile |-> FALSE]

IdleConnector ==
    [transaction_id |-> 0, transaction_start |-> 0, transaction_id_tag |-> "",
     status |-> "Available", reservation_id |-> 0, mutex |-> "none"]

Running(w) == dr[w].pc # "idle"

\* The pool hands a job to its first free worker, and the threads of the
\* application are numbered in the order they come to call.
FirstFree(pcs, x, order) ==
    /\ pcs[x].pc = "idle"
    /\ \A i \in 1..Len(order) :
          order[i] = x => \A j \in 1..(i - 1) : pcs[order[j]].pc # "idle"
WorkerOrder == <<"w1", "w2">>
ThreadOrder == <<"t1", "t2">>

\* ------------------------------------------------- message sender (collaborator)
\* GenericMessageSender::call : a call can only succeed over a live link; it
\* can fail at any time (transport error, timeout).
CallOutcomes(isConnected) == IF isConnected THEN {"Ok", "Failed"} ELSE {"Failed"}

\* GenericMessageSender::call with a FIFO attached: a failed request is appended.
FifoAfterCall(q, result, entry) == IF result = "Ok" THEN q ELSE Append(q, entry)

\* ReservationManager::isTransactionAllowed: Accepted, or one of the other
\* statuses.
TransactionAllowedVerdicts == {"Accepted", "Blocked"}

\* ReservationManager::clearReservation: the reservation of the connector, if
\* it has one, ends.
clearReservation(conns, connector_id) ==
    [conns EXCEPT ![connector_id].status = IF @ = "Reserved" THEN "Available" ELSE @,
                  ![connector_id].reservation_id = 0]

\* ------------------------------------------------- updateConnectionStatus
\* The test on the FIFO size inverted.
MustRestartFifo_Inverted(is_connected, size) == is_connected /\ size = 0

\* Whether the notification starts a FIFO job.
MustRestartFifo(is_connected, size) == is_connected /\ size # 0

\* ------------------------------------------------- startTransaction
\* connector_id != 0 and m_connectors.getConnector(connector_id) != nullptr
StartPrecondition(connector_id) ==
    connector_id # 0 /\ connector_id \in ConnectorIds

\* Every verdict of the reservation manager lets the transaction go on.
ReservationAllows_Any(verdict) == TRUE

\* ret == AuthorizationStatus::Accepted after isTransactionAllowed
ReservationAllows(verdict) == verdict = "Accepted"

\* Whether isTransactionAllowed is asked for the charge point (line 142).
StartAsksChargePoint(conns, connector_id, cfgZero) ==
    /\ conns[connector_id].status # "Reserved"
    /\ cfgZero
    /\ conns[CONNECTOR_ID_CHARGE_POINT].status = "Reserved"

\* The reservation of the charge point is not looked at.
StartReservationId_ConnectorOnly(conns, connector_id, cfgZero, allowedZero) ==
    IF conns[connector_id].status = "Reserved"
    THEN conns[connector_id].reservation_id
    ELSE 0

\* The reservation id stamped in the request, 0 when the field is left unset.
StartReservationId(conns, connector_id, cfgZero, allowedZero) ==
    IF conns[connector_id].status = "Reserved"
    THEN conns[connector_id].reservation_id
    ELSE IF cfgZero /\ conns[CONNECTOR_ID_CHARGE_POINT].status = "Reserved"
              /\ allowedZero = "Accepted"
         THEN conns[CONNECTOR_ID_CHARGE_POINT].reservation_id
         ELSE 0

\* Whether clearReservation(connector_id) is called.
StartClearsReservation(conns, connector_id, cfgZero, allowedZero) ==
    \/ conns[connector_id].status = "Reserved"
    \/ /\ cfgZero
       /\ conns[CONNECTOR_ID_CHARGE_POINT].status = "Reserved"
       /\ allowedZero = "Accepted"

\* start_transaction_conf.transactionId when the call failed
OfflineTransactionId == -1

\* The failure of the call handed to the caller.
StartStatusAfterCall_Surfaced(result, responseStatus) ==
    IF result = "Ok" THEN responseStatus ELSE "Invalid"

\* The status startTransaction goes on with after the call.
StartStatusAfterCall(result, responseStatus) ==
    IF result = "Ok" THEN responseStatus ELSE "Accepted"

\* The provisional id taken whatever the call gave.
StartTransactionIdAfterCall_Provisional(result, responseId) == OfflineTransactionId

\* The transaction id startTransaction goes on with after the call.
StartTransactionIdAfterCall(result, responseId) ==
    IF result = "Ok" THEN responseId ELSE OfflineTransactionId

\* The StopTransaction that closes a refused transaction in the central system.
CompensatingStop_Reread(transactionId, meterStart, seq) ==
    [NoEntry EXCEPT !.action = STOP_TRANSACTION_ACTION,
                    !.transactionId = transactionId,
                    !.reason = "DeAuthorized",
                    !.meter = 250,
                    !.seq = seq]

CompensatingStop(transactionId, meterStart, seq) ==
    [NoEntry EXCEPT !.action = STOP_TRANSACTION_ACTION,
                    !.transactionId = transactionId,
                    !.reason = "DeAuthorized",
                    !.meter = meterStart,
                    !.seq = seq]

\* The connector record written under the connector mutex.
StartedConnector(c, transactionId, id_tag) ==
    [c EXCEPT !.transaction_id = transactionId,
              !.transaction_start = Now,
              !.transaction_id_tag = id_tag]

\* The lock_guard is still alive when its block is left.
MutexAfterSection_Kept(holder) == holder

\* connector->mutex after the block of the std::lock_guard (lines 191, 256)
MutexAfterSection(holder) == "none"

\* ------------------------------------------------- stopTransaction
\* connector exists
StopConnectorExists(connector_id) == connector_id \in ConnectorIds

\* Only a confirmed transaction counts.
TransactionInProgress_Confirmed(c) == c.transaction_id > 0

\* a transaction is in progress
TransactionInProgress(c) == c.transaction_id # 0

\* The connector record written under the connector mutex.
StoppedConnector(c) ==
    [c EXCEPT !.transaction_id = 0,
              !.transaction_id_tag = "",
              !.transaction_start = 0]

\* ------------------------------------------------- handleMessage (remote start)
\* request.connectorId when the field is not set
NoConnectorId == -1

\* The check that no transaction is in progress left out.
RemoteStartChecks_AnyTransaction(conns, connectorId) ==
    /\ connectorId # NoConnectorId
    /\ connectorId # CONNECTOR_ID_CHARGE_POINT
    /\ connectorId \in DOMAIN conns
    /\ conns[connectorId].status # "Unavailable"

\* The checks made before the reservation manager is asked.
RemoteStartChecks(conns, connectorId) ==
    /\ connectorId # NoConnectorId
    /\ connectorId # CONNECTOR_ID_CHARGE_POINT
    /\ connectorId \in DOMAIN conns
    /\ conns[connectorId].status # "Unavailable"
    /\ conns[connectorId].transaction_id = 0

\* response.status
RemoteStartStopStatus(authorized) == IF authorized THEN "Accepted" ELSE "Rejected"

\* A remote start that is accepted starts the transaction by itself.
ConnectorsAfterRemoteStart_Started(conns, connectorId, id_tag, authorized) ==
    IF authorized
    THEN [conns EXCEPT ![connectorId] = StartedConnector(@, OfflineTransactionId, id_tag)]
    ELSE conns

\* The connectors after a RemoteStartTransaction request was handled.
ConnectorsAfterRemoteStart(conns, connectorId, id_tag, authorized) == conns

\* ------------------------------------------------- handleMessage (remote stop)
\* Any connector with the requested id matches, with a transaction or not.
RemoteStopMatches_AnyId(c, transactionId) == c.transaction_id = transactionId

\* The connector holds the requested transaction.
RemoteStopMatches(c, transactionId) ==
    c.transaction_id # 0 /\ c.transaction_id = transactionId

\* The first connector of m_connectors.getConnectors() that matches, as a set.
RemoteStopTarget(conns, transactionId) ==
    LET matching == {c \in DOMAIN conns : RemoteStopMatches(conns[c], transactionId)}
    IN {c \in matching : \A d \in matching : c <= d}

\* ------------------------------------------------- processFifoRequest
\* The two gates checked when the job starts.
GateConnected(isConnected) == isConnected
GateRegistered(status) == status = "Accepted"

\* The actions for which the job calls the message sender.
IsSendAction(action) ==
    action \in {START_TRANSACTION_ACTION, STOP_TRANSACTION_ACTION, METER_VALUES_ACTION}

\* The connector notified with transactionDeAuthorized, 0 when none is.
DeAuthTarget(conns, request, responseStatus) ==
    IF /\ responseStatus # "Accepted"
       /\ request.connectorId \in ConnectorIds
       /\ conns[request.connectorId].transaction_id = -1
       /\ conns[request.connectorId].transaction_id_tag = request.idTag
    THEN request.connectorId
    ELSE 0

\* The connectors after the job handled the response of a queued StartTransaction.
ConnectorsAfterFifoStart(conns, request, responseStatus, responseId) == conns

\* m_request_retry_count > m_ocpp_config.transactionMessageAttempts()
RetryExhausted(count) == count > TransactionMessageAttempts

\* m_requests_fifo.pop()
Pop(q) == IF q = <<>> THEN q ELSE Tail(q)

\* The condition of the do ... while loop.
LoopAgain(size, timerStarted, isConnected) ==
    size # 0 /\ ~timerStarted /\ isConnected

\* ------------------------------------------------------------------ Init
Init ==
    /\ connected = FALSE
    /\ regStatus = "Pending"
    /\ fifo = <<>>
    /\ nextSeq = 1
    /\ retryCount = 0
    /\ timerArmed = FALSE
    /\ poolJobs = 0
    /\ dr = [w \in Workers |-> IdleDrainer]
    /\ th = [t \in Threads |-> IdleThread]
    /\ connectors = [c \in ConnectorIds |-> IdleConnector]
    /\ reserveConnectorZeroSupported = FALSE
    /\ attempts = 0

\* ------------------------------------------------------------ environment
\* The transport comes up and reports it: updateConnectionStatus(true).
ConnectionUp ==
    /\ ~connected
    /\ connected' = TRUE
    /\ IF MustRestartFifo(TRUE, Len(fifo))
       THEN /\ poolJobs < MaxJobs
            /\ poolJobs' = poolJobs + 1
       ELSE UNCHANGED poolJobs
    /\ UNCHANGED <<regStatus, fifo, nextSeq, retryCount, timerArmed, dr, th,
                   connectors, reserveConnectorZeroSupported, attempts>>

\* The transport goes down: updateConnectionStatus(false) does nothing.
ConnectionDown ==
    /\ connected
    /\ connected' = FALSE
    /\ IF MustRestartFifo(FALSE, Len(fifo))
       THEN /\ poolJobs < MaxJobs
            /\ poolJobs' = poolJobs + 1
       ELSE UNCHANGED poolJobs
    /\ UNCHANGED <<regStatus, fifo, nextSeq, retryCount, timerArmed, dr, th,
                   connectors, reserveConnectorZeroSupported, attempts>>

\* The status manager changes the registration status.
RegistrationChange(s) ==
    /\ s # regStatus
    /\ regStatus' = s
    /\ UNCHANGED <<connected, fifo, nextSeq, retryCount, timerArmed, poolJobs, dr,
                   th, connectors, reserveConnectorZeroSupported, attempts>>

\* The retry timer expires: its callback queues a processFifoRequest job.
TimerFire ==
    /\ timerArmed
    /\ poolJobs < MaxJobs
    /\ timerArmed' = FALSE
    /\ poolJobs' = poolJobs + 1
    /\ UNCHANGED <<connected, regStatus, fifo, nextSeq, retryCount, dr, th,
                   connectors, reserveConnectorZeroSupported, attempts>>

\* The process dies and is started again: the FIFO and the connectors are
\* read back from the database, everything else is as constructed.
Crash ==
    /\ connected' = FALSE
    /\ retryCount' = 0
    /\ timerArmed' = FALSE
    /\ poolJobs' = 0
    /\ dr' = [w \in Workers |-> IdleDrainer]
    /\ th' = [t \in Threads |-> IdleThread]
    /\ attempts' = 0
    /\ UNCHANGED <<regStatus, fifo, nextSeq, connectors, reserveConnectorZeroSupported>>

\* ------------------------------------------------------- startTransaction
\* Lines 104-156: the checks, the reservation and the request.
StartBegin(t, connector_id, id_tag, meterStart) ==
    /\ FirstFree(th, t, ThreadOrder)
    /\ LET call == [IdleThread EXCEPT !.op = "start", !.connector_id = connector_id,
                                      !.id_tag = id_tag, !.ret = "Invalid"]
       IN IF ~StartPrecondition(connector_id)
          THEN /\ th' = [th EXCEPT ![t] = [call EXCEPT !.pc = "done"]]
               /\ UNCHANGED connectors
          ELSE \E allowed \in TransactionAllowedVerdicts :
                 IF ~ReservationAllows(allowed)
                 THEN /\ th' = [th EXCEPT ![t] = [call EXCEPT !.pc = "done", !.ret = allowed]]
                      /\ UNCHANGED connectors
                 ELSE \E allowedZero \in TransactionAllowedVerdicts :
                        /\ th' = [th EXCEPT ![t] =
                                    [call EXCEPT !.pc = "start_call",
                                                 !.ret = allowed,
                                                 !.meter = meterStart,
                                                 !.verdict =
                                                     IF StartAsksChargePoint(connectors,
                                                            connector_id,
                                                            reserveConnectorZeroSupported)
                                                     THEN allowedZero ELSE "none",
                                                 !.calls =
                                                     IF StartClearsReservation(connectors,
                                                            connector_id,
                                                            reserveConnectorZeroSupported,
                                                            allowedZero)
                                                     THEN {"clearReservation"} ELSE {},
                                                 !.reservationId =
                                                     StartReservationId(connectors, connector_id,
                                                         reserveConnectorZeroSupported, allowedZero)]]
                        /\ connectors' =
                               IF StartClearsReservation(connectors, connector_id,
                                      reserveConnectorZeroSupported, allowedZero)
                               THEN clearReservation(connectors, connector_id)
                               ELSE connectors
    /\ UNCHANGED <<connected, regStatus, fifo, nextSeq, retryCount, timerArmed,
                   poolJobs, dr, reserveConnectorZeroSupported, attempts>>

\* Lines 158-178: the call, with the FIFO attached.
StartCall(t) ==
    /\ th[t].pc = "start_call"
    /\ \E result \in CallOutcomes(connected), responseStatus \in ResponseStatuses,
          responseId \in TxIds :
         LET status == StartStatusAfterCall(result, responseStatus)
             entry == [NoEntry EXCEPT !.action = START_TRANSACTION_ACTION,
                                      !.connectorId = th[t].connector_id,
                                      !.idTag = th[t].id_tag,
                                      !.reservationId = th[t].reservationId,
                                      !.meter = th[t].meter,
                                      !.seq = nextSeq]
         IN /\ result = "Failed" => nextSeq <= MaxEntries
            \* a failed call has no response: one choice stands for all
            /\ result = "Failed" => responseStatus = "Accepted"
            /\ fifo' = FifoAfterCall(fifo, result, entry)
            /\ nextSeq' = IF result = "Ok" THEN nextSeq ELSE nextSeq + 1
            /\ th' = [th EXCEPT ![t].result = result,
                                ![t].ret = status,
                                ![t].sent = Append(@, [entry EXCEPT !.seq = 0]),
                                ![t].transactionId =
                                    StartTransactionIdAfterCall(result, responseId),
                                ![t].pc = IF status = "Accepted" THEN "start_update"
                                          ELSE "start_refused"]
    /\ UNCHANGED <<connected, regStatus, retryCount, timerArmed, poolJobs, dr,
                   connectors, reserveConnectorZeroSupported, attempts>>

\* Lines 179-198: the connector is updated under its mutex and saved.
StartUpdate(t) ==
    /\ th[t].pc = "start_update"
    /\ connectors' = [connectors EXCEPT ![th[t].connector_id] =
                         StartedConnector(@, th[t].transactionId, th[t].id_tag)]
    /\ th' = [th EXCEPT ![t].pc = "done",
                        ![t].calls = @ \cup {"assignPendingTxProfiles",
                                             "startSampledMeterValues"}]
    /\ UNCHANGED <<connected, regStatus, fifo, nextSeq, retryCount, timerArmed,
                   poolJobs, dr, reserveConnectorZeroSupported, attempts>>

\* Lines 199-214: the StopTransaction that closes the refused transaction.
StartRefused(t) ==
    /\ th[t].pc = "start_refused"
    /\ \E result \in CallOutcomes(connected) :
         LET entry == CompensatingStop(th[t].transactionId, th[t].meter, nextSeq)
         IN /\ result = "Failed" => nextSeq <= MaxEntries
            /\ fifo' = FifoAfterCall(fifo, result, entry)
            /\ nextSeq' = IF result = "Ok" THEN nextSeq ELSE nextSeq + 1
            /\ th' = [th EXCEPT ![t].pc = "done",
                                ![t].sent = Append(@, [entry EXCEPT !.seq = 0])]
    /\ UNCHANGED <<connected, regStatus, retryCount, timerArmed, poolJobs, dr,
                   connectors, reserveConnectorZeroSupported, attempts>>

\* ------------------------------------------------------- stopTransaction
\* Lines 225-235: the connector and the transaction in progress.
StopBegin(t, connector_id, id_tag) ==
    /\ FirstFree(th, t, ThreadOrder)
    /\ LET call == [IdleThread EXCEPT !.op = "stop", !.connector_id = connector_id,
                                      !.id_tag = id_tag, !.ret = "false"]
       IN th' = [th EXCEPT ![t] =
                   IF /\ StopConnectorExists(connector_id)
                      /\ TransactionInProgress(connectors[connector_id])
                   THEN [call EXCEPT !.pc = "stop_request",
                                     !.calls = {"stopSampledMeterValues"},
                                     \* history: what the connector held at line 232
                                     !.held = connectors[connector_id].transaction_id]
                   ELSE [call EXCEPT !.pc = "done"]]
    /\ UNCHANGED <<connected, regStatus, fifo, nextSeq, retryCount, timerArmed,
                   poolJobs, dr, connectors, reserveConnectorZeroSupported, attempts>>

\* Lines 237-247: the request takes the connector's transaction id.
StopRequest(t, meterStop) ==
    /\ th[t].pc = "stop_request"
    /\ th' = [th EXCEPT ![t].transactionId = connectors[th[t].connector_id].transaction_id,
                        ![t].meter = meterStop,
                        ![t].pc = "stop_reset"]
    /\ UNCHANGED <<connected, regStatus, fifo, nextSeq, retryCount, timerArmed,
                   poolJobs, dr, connectors, reserveConnectorZeroSupported, attempts>>

\* Lines 249-256: the connector is reset under its mutex and saved.
StopReset(t) ==
    /\ th[t].pc = "stop_reset"
    /\ connectors' = [connectors EXCEPT ![th[t].connector_id] = StoppedConnector(@)]
    /\ th' = [th EXCEPT ![t].pc = "stop_call"]
    /\ UNCHANGED <<connected, regStatus, fifo, nextSeq, retryCount, timerArmed,
                   poolJobs, dr, reserveConnectorZeroSupported, attempts>>

\* Lines 262-277: the call, with the FIFO attached.
StopCall(t) ==
    /\ th[t].pc = "stop_call"
    /\ \E result \in CallOutcomes(connected) :
         LET entry == [NoEntry EXCEPT !.action = STOP_TRANSACTION_ACTION,
                                      !.idTag = th[t].id_tag,
                                      !.transactionId = th[t].transactionId,
                                      !.reason = "Local",
                                      !.meter = th[t].meter,
                                      !.seq = nextSeq]
         IN /\ result = "Failed" => nextSeq <= MaxEntries
            /\ fifo' = FifoAfterCall(fifo, result, entry)
            /\ nextSeq' = IF result = "Ok" THEN nextSeq ELSE nextSeq + 1
            /\ th' = [th EXCEPT ![t].result = result, ![t].ret = "true", ![t].pc = "done",
                                ![t].sent = Append(@, [entry EXCEPT !.seq = 0]),
                                ![t].calls = @ \cup {"clearTxProfiles"}]
    /\ UNCHANGED <<connected, regStatus, retryCount, timerArmed, poolJobs, dr,
                   connectors, reserveConnectorZeroSupported, attempts>>

\* The call returns to the event thread.
Return(t) ==
    /\ th[t].pc = "done"
    /\ th' = [th EXCEPT ![t] = IdleThread]
    /\ UNCHANGED <<connected, regStatus, fifo, nextSeq, retryCount, timerArmed,
                   poolJobs, dr, connectors, reserveConnectorZeroSupported, attempts>>

\* ------------------------------------------- the connector mutex, step by step
\* Line 186: std::lock_guard takes connector->mutex, when it is free.
StartLock(t) ==
    /\ th[t].pc = "start_update"
    /\ connectors[th[t].connector_id].mutex = "none"
    /\ connectors' = [connectors EXCEPT ![th[t].connector_id].mutex = t]
    /\ th' = [th EXCEPT ![t].pc = "start_locked"]
    /\ UNCHANGED <<connected, regStatus, fifo, nextSeq, retryCount, timerArmed,
                   poolJobs, dr, reserveConnectorZeroSupported, attempts>>

\* Lines 187-190: the three fields are written and the connector is saved.
StartWrite(t) ==
    /\ th[t].pc = "start_locked"
    /\ connectors' = [connectors EXCEPT ![th[t].connector_id] =
                         StartedConnector(@, th[t].transactionId, th[t].id_tag)]
    /\ th' = [th EXCEPT ![t].pc = "start_unlock"]
    /\ UNCHANGED <<connected, regStatus, fifo, nextSeq, retryCount, timerArmed,
                   poolJobs, dr, reserveConnectorZeroSupported, attempts>>

\* Lines 191-197: the block ends, then the profiles and the meter sampling.
StartUnlock(t) ==
    /\ th[t].pc = "start_unlock"
    /\ connectors' = [connectors EXCEPT ![th[t].connector_id].mutex = MutexAfterSection(t)]
    /\ th' = [th EXCEPT ![t].pc = "done",
                        ![t].calls = @ \cup {"assignPendingTxProfiles",
                                             "startSampledMeterValues"}]
    /\ UNCHANGED <<connected, regStatus, fifo, nextSeq, retryCount, timerArmed,
                   poolJobs, dr, reserveConnectorZeroSupported, attempts>>

\* Line 251: std::lock_guard takes connector->mutex, when it is free.
StopLock(t) ==
    /\ th[t].pc = "stop_reset"
    /\ connectors[th[t].connector_id].mutex = "none"
    /\ connectors' = [connectors EXCEPT ![th[t].connector_id].mutex = t]
    /\ th' = [th EXCEPT ![t].pc = "stop_locked"]
    /\ UNCHANGED <<connected, regStatus, fifo, nextSeq, retryCount, timerArmed,
                   poolJobs, dr, reserveConnectorZeroSupported, attempts>>

\* Lines 252-255: the three fields are reset and the connector is saved.
StopWrite(t) ==
    /\ th[t].pc = "stop_locked"
    /\ connectors' = [connectors EXCEPT ![th[t].connector_id] = StoppedConnector(@)]
    /\ th' = [th EXCEPT ![t].pc = "stop_unlock"]
    /\ UNCHANGED <<connected, regStatus, fifo, nextSeq, retryCount, timerArmed,
                   poolJobs, dr, reserveConnectorZeroSupported, attempts>>

\* Line 256: the block ends.
StopUnlock(t) ==
    /\ th[t].pc = "stop_unlock"
    /\ connectors' = [connectors EXCEPT ![th[t].connector_id].mutex = MutexAfterSection(t)]
    /\ th' = [th EXCEPT ![t].pc = "stop_call"]
    /\ UNCHANGED <<connected, regStatus, fifo, nextSeq, retryCount, timerArmed,
                   poolJobs, dr, reserveConnectorZeroSupported, attempts>>

\* ------------------------------------------------------- handleMessage
\* Lines 289-336: a RemoteStartTransaction request is handled.  The
\* reservation manager, the events handler and the smart charging manager
\* are asked in that order, each only when the one before agreed.
RemoteStart(t, connectorId, id_tag, hasProfile) ==
    /\ FirstFree(th, t, ThreadOrder)
    /\ \E allowed \in TransactionAllowedVerdicts, accepted \in BOOLEAN, installed \in BOOLEAN :
         LET checked == RemoteStartChecks(connectors, connectorId)
             eligible == checked /\ allowed = "Accepted"
             authorized == eligible /\ accepted /\ (hasProfile => installed)
         IN \* an answer nobody asked for: one choice stands for all
            /\ ~checked => allowed = "Accepted"
            /\ ~eligible => accepted
            /\ ~(eligible /\ accepted /\ hasProfile) => installed
            /\ th' = [th EXCEPT ![t] =
                  [IdleThread EXCEPT
                      !.pc = "done",
                      !.op = "remote_start",
                      !.connector_id = connectorId,
                      !.id_tag = id_tag,
                      !.profile = hasProfile,
                      !.verdict = IF checked THEN allowed ELSE "none",
                      !.handler = IF eligible
                                  THEN (IF accepted THEN "true" ELSE "false")
                                  ELSE "none",
                      !.notified = IF eligible THEN {connectorId} ELSE {},
                      !.calls = (IF checked THEN {"isTransactionAllowed"} ELSE {})
                                \cup (IF eligible THEN {"remoteStartTransactionRequested"}
                                      ELSE {})
                                \cup (IF eligible /\ accepted /\ hasProfile
                                      THEN {"installTxProfile"} ELSE {}),
                      !.ret = RemoteStartStopStatus(authorized)]]
            /\ connectors' = ConnectorsAfterRemoteStart(connectors, connectorId, id_tag,
                                                        authorized)
    /\ UNCHANGED <<connected, regStatus, fifo, nextSeq, retryCount, timerArmed,
                   poolJobs, dr, reserveConnectorZeroSupported, attempts>>

\* Lines 343-379: a RemoteStopTransaction request is handled.
RemoteStop(t, transactionId) ==
    /\ FirstFree(th, t, ThreadOrder)
    /\ \E accepted \in BOOLEAN :
         LET target == RemoteStopTarget(connectors, transactionId)
             authorized == target # {} /\ accepted
         IN \* an answer nobody asked for: one choice stands for all
            /\ target = {} => accepted
            /\ th' = [th EXCEPT ![t] =
                  [IdleThread EXCEPT
                      !.pc = "done",
                      !.op = "remote_stop",
                      !.transactionId = transactionId,
                      !.handler = IF target # {}
                                  THEN (IF accepted THEN "true" ELSE "false")
                                  ELSE "none",
                      !.notified = target,
                      !.calls = IF target # {} THEN {"remoteStopTransactionRequested"}
                                ELSE {},
                      !.ret = RemoteStartStopStatus(authorized)]]
    /\ UNCHANGED <<connected, regStatus, fifo, nextSeq, retryCount, timerArmed,
                   poolJobs, dr, connectors, reserveConnectorZeroSupported, attempts>>

\* ----------------------------------------------------- processFifoRequest
\* Lines 382-389 and 486-490: a worker takes a queued job and checks the gates.
DrainBegin(w) ==
    /\ FirstFree(dr, w, WorkerOrder)
    /\ poolJobs > 0
    /\ poolJobs' = poolJobs - 1
    /\ IF ~GateConnected(connected)
       THEN UNCHANGED <<dr, timerArmed>>
       ELSE IF ~GateRegistered(regStatus)
            THEN /\ timerArmed' = TRUE
                 /\ UNCHANGED dr
            ELSE /\ dr' = [dr EXCEPT ![w].pc = "front"]
                 /\ UNCHANGED timerArmed
    /\ UNCHANGED <<connected, regStatus, fifo, nextSeq, retryCount, th, connectors,
                   reserveConnectorZeroSupported, attempts>>

\* Lines 392-395: m_requests_fifo.front(action, payload).
DrainFront(w) ==
    /\ dr[w].pc = "front"
    /\ dr' = [dr EXCEPT ![w] =
                 IF fifo # <<>>
                 THEN [IdleDrainer EXCEPT !.pc = "call", !.head = Head(fifo)]
                 ELSE [IdleDrainer EXCEPT !.pc = "while"]]
    /\ UNCHANGED <<connected, regStatus, fifo, nextSeq, retryCount, timerArmed,
                   poolJobs, th, connectors, reserveConnectorZeroSupported, attempts>>

\* Lines 400-452: the request is sent according to its action; the response
\* of a StartTransaction is looked at.
DrainCall(w) ==
    /\ dr[w].pc = "call"
    /\ LET request == dr[w].head
       IN IF ~IsSendAction(request.action)
          THEN /\ dr' = [dr EXCEPT ![w].res = "Failed", ![w].pc = "result"]
               /\ UNCHANGED <<connectors, attempts>>
          ELSE \E res \in CallOutcomes(connected), responseStatus \in ResponseStatuses,
                  responseId \in TxIds :
                 LET isStart == res = "Ok" /\ request.action = START_TRANSACTION_ACTION
                 IN \* only the response of a StartTransaction is read
                    /\ ~isStart => responseStatus = "Accepted"
                    /\ dr' = [dr EXCEPT
                          ![w].res = res,
                          ![w].pc = "result",
                          ![w].status = IF isStart THEN responseStatus ELSE "none",
                          ![w].transactionId = IF isStart THEN responseId ELSE 0,
                          ![w].deauth = IF isStart
                                        THEN DeAuthTarget(connectors, request, responseStatus)
                                        ELSE 0]
                    /\ connectors' =
                          IF isStart
                          THEN ConnectorsAfterFifoStart(connectors, request,
                                                        responseStatus, responseId)
                          ELSE connectors
                    /\ attempts' = IF fifo # <<>> /\ Head(fifo).seq = request.seq
                                   THEN attempts + 1
                                   ELSE attempts
    /\ UNCHANGED <<connected, regStatus, fifo, nextSeq, retryCount, timerArmed,
                   poolJobs, th, reserveConnectorZeroSupported>>

\* Lines 453-464: a successful request is removed; after a failed one the
\* retry count is read to be incremented.
DrainResult(w) ==
    /\ dr[w].pc = "result"
    /\ IF dr[w].res = "Ok"
       THEN /\ fifo' = Pop(fifo)
            /\ retryCount' = 0
            /\ attempts' = 0
            /\ dr' = [dr EXCEPT ![w].pc = "while"]
       ELSE /\ dr' = [dr EXCEPT ![w].pc = "retry", ![w].count = retryCount]
            /\ UNCHANGED <<fifo, retryCount, attempts>>
    /\ UNCHANGED <<connected, regStatus, nextSeq, timerArmed, poolJobs, th,
                   connectors, reserveConnectorZeroSupported>>

\* Lines 464-481: the incremented retry count is written; the request is
\* dropped when the count passed the limit, the timer is armed otherwise.
DrainRetry(w) ==
    /\ dr[w].pc = "retry"
    /\ IF RetryExhausted(dr[w].count + 1)
       THEN /\ fifo' = Pop(fifo)
            /\ retryCount' = 0
            /\ attempts' = 0
            /\ UNCHANGED timerArmed
       ELSE /\ retryCount' = dr[w].count + 1
            /\ timerArmed' = (timerArmed \/ connected)
            /\ UNCHANGED <<fifo, attempts>>
    /\ dr' = [dr EXCEPT ![w].pc = "while"]
    /\ UNCHANGED <<connected, regStatus, nextSeq, poolJobs, th, connectors,
                   reserveConnectorZeroSupported>>

\* Line 484: the loop goes on or the job ends.
DrainWhile(w) ==
    /\ dr[w].pc = "while"
    /\ dr' = [dr EXCEPT ![w] =
                 IF LoopAgain(Len(fifo), timerArmed, connected)
                 THEN [IdleDrainer EXCEPT !.pc = "front"]
                 ELSE IdleDrainer]
    /\ UNCHANGED <<connected, regStatus, fifo, nextSeq, retryCount, timerArmed,
                   poolJobs, th, connectors, reserveConnectorZeroSupported, attempts>>

\* ------------------------------------------------------------------ Next
Next ==
    \/ ConnectionUp
    \/ ConnectionDown
    \/ \E s \in RegistrationStatus : RegistrationChange(s)
    \/ TimerFire
    \/ \E t \in Threads, c \in RequestedIds, tag \in IdTags, m \in SteadyMeterValues :
          StartBegin(t, c, tag, m)
    \/ \E t \in Threads : StartCall(t)
    \/ \E t \in Threads : StartUpdate(t)
    \/ \E t \in Threads : StartRefused(t)
    \/ \E t \in Threads, c \in RequestedIds, tag \in IdTags : StopBegin(t, c, tag)
    \/ \E t \in Threads, m \in SteadyMeterValues : StopRequest(t, m)
    \/ \E t \in Threads : StopReset(t)
    \/ \E t \in Threads : StopCall(t)
    \/ \E t \in Threads : Return(t)
    \/ \E w \in Workers : DrainBegin(w)
    \/ \E w \in Workers : DrainFront(w)
    \/ \E w \in Workers : DrainCall(w)
    \/ \E w \in Workers : DrainResult(w)
    \/ \E w \in Workers : DrainRetry(w)
    \/ \E w \in Workers : DrainWhile(w)

Spec == Init /\ [][Next]_vars

\* -------------------------------------------------- restart with a database
\* The requests a database can hold when the process starts: what a failed
\* call of startTransaction, of stopTransaction or of the meter values
\* manager left there.
PersistedRequests ==
    {[NoEntry EXCEPT !.action = START_TRANSACTION_ACTION, !.connectorId = 1, !.idTag = tag] :
        tag \in IdTags}
    \cup {[NoEntry EXCEPT !.action = STOP_TRANSACTION_ACTION, !.idTag = tag,
                          !.transactionId = OfflineTransactionId, !.reason = "Local"] :
            tag \in IdTags}
    \cup {[NoEntry EXCEPT !.action = METER_VALUES_ACTION, !.connectorId = 1,
                          !.transactionId = OfflineTransactionId]}

\* The FIFO read back from the database: rows keyed by their sequence number.
PersistedFifos ==
    UNION {{[i \in 1..n |-> [q[i] EXCEPT !.seq = i]] : q \in [1..n -> PersistedRequests]} :
              n \in 0..MaxEntries}

\* The connectors read back from the database.
PersistedConnectors ==
    {[c \in ConnectorIds |-> IF c = 1 THEN r ELSE IdleConnector] :
        r \in {IdleConnector} \cup
              {StartedConnector(IdleConnector, OfflineTransactionId, tag) : tag \in IdTags}}

\* The state after construction over a database that holds requests.
InitDurable ==
    /\ connected = FALSE
    /\ regStatus \in RegistrationStatus
    /\ fifo \in PersistedFifos
    /\ nextSeq = Len(fifo) + 1
    /\ retryCount = 0
    /\ timerArmed = FALSE
    /\ poolJobs = 0
    /\ dr = [w \in Workers |-> IdleDrainer]
    /\ th = [t \in Threads |-> IdleThread]
    /\ connectors \in PersistedConnectors
    /\ reserveConnectorZeroSupported = FALSE
    /\ attempts = 0

\* The FIFO engine alone: no local start or stop adds a request.
NextDurable ==
    \/ ConnectionUp
    \/ ConnectionDown
    \/ \E s \in RegistrationStatus : RegistrationChange(s)
    \/ TimerFire
    \/ Crash
    \/ \E w \in Workers : DrainBegin(w)
    \/ \E w \in Workers : DrainFront(w)
    \/ \E w \in Workers : DrainCall(w)
    \/ \E w \in Workers : DrainResult(w)
    \/ \E w \in Workers : DrainRetry(w)
    \/ \E w \in Workers : DrainWhile(w)

\* The timer pool fires an armed timer and every worker of the pool runs.
DrainFairness ==
    /\ WF_vars(TimerFire)
    /\ \A w \in Workers :
          /\ WF_vars(DrainBegin(w))
          /\ WF_vars(DrainFront(w))
          /\ WF_vars(DrainCall(w))
          /\ WF_vars(DrainResult(w))
          /\ WF_vars(DrainRetry(w))
          /\ WF_vars(DrainWhile(w))

DurableSpec == InitDurable /\ [][NextDurable]_vars /\ DrainFairness

\* ------------------------------------------- two event threads at the calls
\* The event threads of the application: two of them can be in
\* startTransaction or stopTransaction at once.
CallThreads == {"t1", "t2"}

\* The connectors as the status manager and the reservation manager left
\* them: no transaction, connector 1 available, reserved or unavailable, the
\* charge point available or reserved.
CallConnectors ==
    {[c \in ConnectorIds |->
         [IdleConnector EXCEPT
             !.status = IF c = CONNECTOR_ID_CHARGE_POINT THEN s0 ELSE s1,
             !.reservation_id =
                 IF (IF c = CONNECTOR_ID_CHARGE_POINT THEN s0 ELSE s1) = "Reserved"
                 THEN ReservationIdOf(c) ELSE 0]] :
        s0 \in {"Available", "Reserved"}, s1 \in ConnectorStatuses}

\* The state after construction and connection, the charge point not accepted
\* yet by the central system: no FIFO job sends anything.  Over the live
\* transport a call succeeds or fails (timeout).
InitCall ==
    /\ connected = TRUE
    /\ regStatus = "Pending"
    /\ fifo = <<>>
    /\ nextSeq = 1
    /\ retryCount = 0
    /\ timerArmed = FALSE
    /\ poolJobs = 0
    /\ dr = [w \in Workers |-> IdleDrainer]
    /\ th = [t \in CallThreads |-> IdleThread]
    /\ connectors \in CallConnectors
    /\ reserveConnectorZeroSupported \in BOOLEAN
    /\ attempts = 0

NextCall ==
    \/ \E t \in CallThreads, c \in RequestedIds, tag \in IdTags, m \in MeterValues :
          StartBegin(t, c, tag, m)
    \/ \E t \in CallThreads : StartCall(t)
    \/ \E t \in CallThreads : StartUpdate(t)
    \/ \E t \in CallThreads : StartRefused(t)
    \/ \E t \in CallThreads, c \in RequestedIds, tag \in IdTags : StopBegin(t, c, tag)
    \/ \E t \in CallThreads, m \in SteadyMeterValues : StopRequest(t, m)
    \/ \E t \in CallThreads : StopReset(t)
    \/ \E t \in CallThreads : StopCall(t)
    \/ \E t \in CallThreads : Return(t)

CallSpec == InitCall /\ [][NextCall]_vars

\* ------------------------------------------- two event threads and the mutex
\* The state after construction and connection, the connectors available.
InitLock ==
    /\ connected = TRUE
    /\ regStatus = "Pending"
    /\ fifo = <<>>
    /\ nextSeq = 1
    /\ retryCount = 0
    /\ timerArmed = FALSE
    /\ poolJobs = 0
    /\ dr = [w \in Workers |-> IdleDrainer]
    /\ th = [t \in CallThreads |-> IdleThread]
    /\ connectors = [c \in ConnectorIds |-> IdleConnector]
    /\ reserveConnectorZeroSupported = FALSE
    /\ attempts = 0

\* startTransaction and stopTransaction with the blocks of their lock_guards
\* taken apart: lock, write and save, unlock.
NextLock ==
    \/ \E t \in CallThreads, c \in RequestedIds, tag \in IdTags, m \in SteadyMeterValues :
          StartBegin(t, c, tag, m)
    \/ \E t \in CallThreads : StartCall(t)
    \/ \E t \in CallThreads : StartLock(t)
    \/ \E t \in CallThreads : StartWrite(t)
    \/ \E t \in CallThreads : StartUnlock(t)
    \/ \E t \in CallThreads : StartRefused(t)
    \/ \E t \in CallThreads, c \in RequestedIds, tag \in IdTags : StopBegin(t, c, tag)
    \/ \E t \in CallThreads, m \in SteadyMeterValues : StopRequest(t, m)
    \/ \E t \in CallThreads : StopLock(t)
    \/ \E t \in CallThreads : StopWrite(t)
    \/ \E t \in CallThreads : StopUnlock(t)
    \/ \E t \in CallThreads : StopCall(t)
    \/ \E t \in CallThreads : Return(t)

LockSpec == InitLock /\ [][NextLock]_vars

\* ------------------------------------------------- the remote requests
\* A charge point with two connectors beside connector 0.
RemoteConnectorIds == {0, 1, 2}
\* connectorId of a RemoteStartTransaction request (3 is not a connector).
RemoteRequestedIds == {NoConnectorId, 0, 1, 2, 3}
\* transactionId of a RemoteStopTransaction request, and the ids connectors hold.
RemoteTransactionIds == {0, -1, 42, 43, 44}
HeldTransactionIds == {-1, 42, 43}

\* What startTransaction and stopTransaction leave in a connector.
ConnectorTransactions ==
    {IdleConnector} \cup
    {StartedConnector(IdleConnector, id, tag) : id \in HeldTransactionIds, tag \in IdTags}

\* The connectors when a remote request comes in: each connector with or
\* without a transaction, no two of them with the same confirmed id, in any
\* status the status manager gave it.
RemoteConnectors ==
    {conns \in {[c \in RemoteConnectorIds |->
                    [tx[c] EXCEPT !.status = st[c],
                                  !.reservation_id = IF st[c] = "Reserved"
                                                     THEN ReservationIdOf(c) ELSE 0]] :
                   tx \in [RemoteConnectorIds -> ConnectorTransactions],
                   st \in [RemoteConnectorIds -> ConnectorStatuses]} :
        /\ conns[CONNECTOR_ID_CHARGE_POINT].transaction_id = 0
        /\ conns[CONNECTOR_ID_CHARGE_POINT].status # "Unavailable"
        /\ \A c, d \in RemoteConnectorIds :
              (c # d /\ conns[c].transaction_id > 0) =>
                  conns[c].transaction_id # conns[d].transaction_id}

InitRemote ==
    /\ connected = TRUE
    /\ regStatus = "Accepted"
    /\ fifo = <<>>
    /\ nextSeq = 1
    /\ retryCount = 0
    /\ timerArmed = FALSE
    /\ poolJobs = 0
    /\ dr = [w \in Workers |-> IdleDrainer]
    /\ th = [t \in Threads |-> IdleThread]
    /\ connectors \in RemoteConnectors
    /\ reserveConnectorZeroSupported = FALSE
    /\ attempts = 0

\* The message dispatcher hands the requests of the central system to the
\* handlers, one at a time.
NextRemote ==
    \/ \E t \in Threads, c \in RemoteRequestedIds, tag \in IdTags, p \in BOOLEAN :
          RemoteStart(t, c, tag, p)
    \/ \E t \in Threads, id \in RemoteTransactionIds : RemoteStop(t, id)
    \/ \E t \in Threads : Return(t)

RemoteSpec == InitRemote /\ [][NextRemote]_vars

\* ------------------------------------------------------------- properties
RunningWorkers == {w \in Workers : Running(w)}

\* A worker makes the call of line 406, 440 or 446 in this step.
DrainSends(w) ==
    /\ dr[w].pc = "call"
    /\ dr'[w].pc = "result"
    /\ IsSendAction(dr[w].head.action)

\* A worker takes a job from the pool in this step.
JobStarts == poolJobs' = poolJobs - 1

\* A worker removes the head of the FIFO in this step.
DrainPops(w) ==
    /\ dr[w].pc \in {"result", "retry"}
    /\ dr'[w].pc = "while"
    /\ Len(fifo') < Len(fifo)

LinkLive == connected /\ regStatus = "Accepted"

\* C1: every request processFifoRequest gets delivered is delivered while the
\* registration status is Accepted, and a job that finds the transport
\* disconnected or the registration status not Accepted sends nothing and
\* leaves the FIFO and the retry count as they are.
C1_DrainGating ==
    [][/\ \A w \in Workers :
            (DrainSends(w) /\ dr'[w].res = "Ok") => LinkLive
       /\ (JobStarts /\ ~LinkLive) =>
            (fifo' = fifo /\ retryCount' = retryCount /\ dr' = dr)]_vars

\* C2: the entry at the head of the FIFO is never sent more than
\* TransactionMessageAttempts + 1 times.
C2_RetryBound == attempts <= TransactionMessageAttempts + 1

\* C3: the entry a worker removes is the entry that worker sent (or gave up
\* on), and a failed send that leaves retries does not remove the head.
C3_RemovalOfSentEntry ==
    [][\A w \in Workers :
          /\ DrainPops(w) => dr[w].head.seq = Head(fifo).seq
          /\ (dr[w].pc = "retry" /\ dr'[w].pc = "while"
                /\ ~RetryExhausted(dr[w].count + 1)) => fifo' = fifo]_vars

\* C4: no StopTransaction of a provisional transaction is delivered by
\* stopTransaction while the StartTransaction of that connector is in the FIFO.
C4_StartBeforeStop ==
    [][\A t \in Threads :
          (/\ th[t].pc = "stop_call"
           /\ th'[t].pc = "done"
           /\ th'[t].result = "Ok"
           /\ th[t].transactionId = OfflineTransactionId)
          => ~\E i \in 1..Len(fifo) :
                 /\ fifo[i].action = START_TRANSACTION_ACTION
                 /\ fifo[i].connectorId = th[t].connector_id]_vars

\* C5: at most one processFifoRequest job is queued or running.
C5_SingleDrainer == poolJobs + Cardinality(RunningWorkers) <= 1

\* C6: startTransaction on connector 0, on a connector that does not exist or
\* on a connector with a transaction returns Invalid at once and changes
\* neither the FIFO nor the connectors.
C6_StartPreconditions ==
    [][\A t \in Threads :
          (/\ th[t].pc = "idle"
           /\ th'[t].op = "start"
           /\ \/ ~StartPrecondition(th'[t].connector_id)
              \/ TransactionInProgress(connectors[th'[t].connector_id]))
          => /\ th'[t].pc = "done"
             /\ th'[t].ret = "Invalid"
             /\ fifo' = fifo
             /\ connectors' = connectors]_vars

\* C7: when the call of startTransaction fails, the FIFO gets the
\* StartTransaction request as its one new entry, the transaction goes on as
\* accepted with the id -1, the connector is written with that id and the id
\* tag and nothing more is put in the FIFO, and the call returns Accepted.
C7_OfflineStart ==
    [][\A t \in Threads :
          /\ (th[t].pc = "start_call" /\ th'[t].result = "Failed") =>
                /\ Len(fifo') = Len(fifo) + 1
                /\ SubSeq(fifo', 1, Len(fifo)) = fifo
                /\ fifo'[Len(fifo')].action = START_TRANSACTION_ACTION
                /\ fifo'[Len(fifo')].connectorId = th[t].connector_id
                /\ fifo'[Len(fifo')].idTag = th[t].id_tag
                /\ th'[t].pc = "start_update"
                /\ th'[t].ret = "Accepted"
          /\ (th[t].pc = "start_update" /\ th[t].result = "Failed" /\ th'[t].pc = "done") =>
                /\ connectors'[th[t].connector_id].transaction_id = -1
                /\ connectors'[th[t].connector_id].transaction_id_tag = th[t].id_tag
                /\ fifo' = fifo
                /\ th'[t].ret = "Accepted"
          /\ (th[t].pc = "done" /\ th[t].op = "start" /\ th[t].result = "Failed") =>
                th[t].ret = "Accepted"]_vars

\* A failed start has returned Accepted, its request is in the FIFO and the
\* connector holds the provisional transaction.
C7_Witness ==
    \E t \in Threads :
        /\ th[t].pc = "done"
        /\ th[t].op = "start"
        /\ th[t].result = "Failed"
        /\ th[t].ret = "Accepted"
        /\ connectors[th[t].connector_id].transaction_id = -1
        /\ \E i \in 1..Len(fifo) : fifo[i].action = START_TRANSACTION_ACTION

\* C8: whenever a request waits in the FIFO, the link is live and no call of
\* startTransaction or stopTransaction is under way, a processFifoRequest job
\* is queued or running or the retry timer is armed: something is left that
\* attempts the request without a further connection-up.
C8_DrainPending ==
    (fifo # <<>> /\ LinkLive /\ \A t \in Threads : th[t].pc = "idle")
        => (poolJobs > 0 \/ timerArmed \/ RunningWorkers # {})

C10_Reconciliation ==
    [][\A w \in Workers :
          (/\ dr[w].pc = "result"
           /\ dr'[w].pc = "while"
           /\ dr[w].head.action = START_TRANSACTION_ACTION
           /\ dr[w].res = "Ok"
           /\ dr[w].status = "Accepted"
           /\ dr[w].transactionId > 0
           /\ connectors[dr[w].head.connectorId].transaction_id = -1
           /\ connectors[dr[w].head.connectorId].transaction_id_tag = dr[w].head.idTag)
          => connectors'[dr[w].head.connectorId].transaction_id = dr[w].transactionId]_vars

\* A thread leaves startTransaction's connector update in this step.
StartWrites(t) == th[t].pc = "start_update" /\ th'[t].pc = "done"

\* The StartTransaction request of connector c is in the FIFO.
StartQueued(c) ==
    \E i \in 1..Len(fifo) :
        fifo[i].action = START_TRANSACTION_ACTION /\ fifo[i].connectorId = c

\* C11: a connector gets the transaction id -1 only from a startTransaction
\* on that connector whose call failed and whose StartTransaction request was
\* appended to the FIFO; a startTransaction whose call succeeded goes on with
\* the id of the response and never writes -1.
C11_ProvisionalOnlyViaFifo ==
    [][/\ \A c \in ConnectorIds :
            (connectors'[c].transaction_id = -1 /\ connectors[c].transaction_id # -1) =>
                \E t \in DOMAIN th :
                    /\ StartWrites(t)
                    /\ th[t].connector_id = c
                    /\ th[t].result = "Failed"
                    /\ StartQueued(c)
       /\ \A t \in DOMAIN th :
            /\ (th[t].pc = "start_call" /\ th'[t].pc # "start_call") =>
                  /\ (th'[t].transactionId = -1) <=> (th'[t].result = "Failed")
                  /\ (th'[t].result = "Failed") <=>
                        (/\ Len(fifo') = Len(fifo) + 1
                         /\ fifo'[Len(fifo')].action = START_TRANSACTION_ACTION
                         /\ fifo'[Len(fifo')].connectorId = th[t].connector_id)
            /\ (StartWrites(t) /\ th[t].result = "Ok") =>
                  connectors'[th[t].connector_id].transaction_id \in TxIds]_vars

\* A connector holds -1 from a failed start although another start on the
\* same connector was accepted by the central system and has returned.
C11_Witness ==
    \E c \in ConnectorIds, t \in DOMAIN th :
        /\ connectors[c].transaction_id = -1
        /\ StartQueued(c)
        /\ th[t].pc = "done"
        /\ th[t].op = "start"
        /\ th[t].connector_id = c
        /\ th[t].result = "Ok"
        /\ th[t].ret = "Accepted"

\* A worker gets the response of a queued StartTransaction in this step.
DrainDeliversStart(w) ==
    /\ dr[w].pc = "call"
    /\ dr'[w].pc = "result"
    /\ dr[w].head.action = START_TRANSACTION_ACTION
    /\ dr'[w].res = "Ok"

\* The connector of a queued StartTransaction still holds its provisional
\* transaction.
HoldsProvisional(request) ==
    /\ request.connectorId \in ConnectorIds
    /\ connectors[request.connectorId].transaction_id = -1
    /\ connectors[request.connectorId].transaction_id_tag = request.idTag

\* Another worker has made the transactionDeAuthorized callback for the
\* same queued request.
AlreadyDeAuthorized(w, request) ==
    \E w2 \in Workers \ {w} :
        dr[w2].head.seq = request.seq /\ dr[w2].deauth # 0

\* C12: when the response of a queued StartTransaction is not Accepted and
\* the connector of the request still holds the provisional transaction, the
\* worker makes the transactionDeAuthorized callback for that connector and
\* no other worker has made it for the same request; when the response is
\* Accepted or the connector does not hold the provisional transaction, no
\* callback is made.
C12_DeAuthExactlyOnce ==
    [][\A w \in Workers :
          DrainDeliversStart(w) =>
             /\ (dr'[w].status # "Accepted" /\ HoldsProvisional(dr[w].head)) =>
                   /\ dr'[w].deauth = dr[w].head.connectorId
                   /\ ~AlreadyDeAuthorized(w, dr[w].head)
             /\ (dr'[w].status = "Accepted" \/ ~HoldsProvisional(dr[w].head)) =>
                   dr'[w].deauth = 0]_vars

\* The fields of a connector that describe its transaction.
TransactionOf(c) ==
    <<connectors[c].transaction_id, connectors[c].transaction_id_tag,
      connectors[c].transaction_start>>

\* The central system has answered the StartTransaction of thread t with a
\* status other than Accepted.
Rejected(r) == r.op = "start" /\ r.result = "Ok" /\ r.ret # "Accepted"

\* C13: when the central system answers the StartTransaction of
\* startTransaction with a status other than Accepted, the call goes to the
\* compensating StopTransaction without touching the connector or the FIFO;
\* that StopTransaction is the one request made after the StartTransaction
\* and carries the transactionId of the response, the reason DeAuthorized
\* and the meterStart of the request; the call returns the status of the
\* response, has not started the meter sampling and has left the
\* transaction of the connector as it was.
C13_CentralSystemRejection ==
    [][\A t \in DOMAIN th :
          /\ (th[t].pc = "start_call" /\ Rejected(th'[t])) =>
                /\ th'[t].pc = "start_refused"
                /\ th'[t].ret \in ResponseStatuses
                /\ th'[t].transactionId \in TxIds
                /\ connectors' = connectors
                /\ fifo' = fifo
          /\ (th[t].pc = "start_refused" /\ th'[t].pc # "start_refused") =>
                /\ Rejected(th[t])
                /\ th'[t].pc = "done"
                /\ th'[t].ret = th[t].ret
                /\ Len(th'[t].sent) = 2
                /\ th'[t].sent[1] = th[t].sent[1]
                /\ th'[t].sent[1].action = START_TRANSACTION_ACTION
                /\ th'[t].sent[2].action = STOP_TRANSACTION_ACTION
                /\ th'[t].sent[2].transactionId = th[t].transactionId
                /\ th'[t].sent[2].reason = "DeAuthorized"
                /\ th'[t].sent[2].meter = th[t].sent[1].meter
                /\ th'[t].calls \subseteq {"clearReservation"}
                /\ TransactionOf(th[t].connector_id)' = TransactionOf(th[t].connector_id)
          /\ (th[t].pc = "done" /\ Rejected(th[t]) /\ th'[t].pc = "idle") =>
                /\ Len(th[t].sent) = 2
                /\ "startSampledMeterValues" \notin th[t].calls]_vars

\* A start refused by the central system has returned Blocked after its
\* compensating StopTransaction, the meter having counted before the start.
C13_Witness ==
    \E t \in DOMAIN th :
        /\ th[t].pc = "done"
        /\ Rejected(th[t])
        /\ th[t].ret = "Blocked"
        /\ Len(th[t].sent) = 2
        /\ th[t].sent[2].meter = 250
        /\ th[t].sent[2].transactionId = 42

\* Thread t enters startTransaction in this step, on a connector that takes
\* transactions.
StartEnters(t) ==
    /\ th[t].pc = "idle"
    /\ th'[t].op = "start"
    /\ StartPrecondition(th'[t].connector_id)

\* C14: a startTransaction on a connector that exists either goes on to its
\* StartTransaction with the verdict Accepted of the reservation manager, or
\* returns at once with the verdict the reservation manager gave, which is
\* not Accepted: it has made no request, the FIFO and the connectors (their
\* reservations with them) are as they were and no collaborator was called.
C14_ReservationMismatch ==
    [][\A t \in DOMAIN th :
          StartEnters(t) =>
             \/ /\ th'[t].pc = "start_call"
                /\ th'[t].ret = "Accepted"
             \/ /\ th'[t].pc = "done"
                /\ th'[t].ret \in TransactionAllowedVerdicts \ {"Accepted"}
                /\ th'[t].sent = <<>>
                /\ th'[t].calls = {}
                /\ fifo' = fifo
                /\ connectors' = connectors]_vars

\* A start on a reserved connector has been refused by the reservation
\* manager and has returned: the reservation is still there.
C14_Witness ==
    \E t \in DOMAIN th :
        /\ th[t].pc = "done"
        /\ th[t].op = "start"
        /\ th[t].ret = "Blocked"
        /\ th[t].sent = <<>>
        /\ connectors[th[t].connector_id].status = "Reserved"
        /\ connectors[th[t].connector_id].reservation_id = ReservationIdOf(th[t].connector_id)

\* Thread t enters stopTransaction in this step.
StopEnters(t) == th[t].pc = "idle" /\ th'[t].op = "stop"

\* C15: a stopTransaction on a connector that does not exist or whose
\* transaction_id is 0 returns false at once: no request, no collaborator
\* call, the FIFO and the connectors as they were.  Every other
\* stopTransaction goes on, through the connector reset, to its
\* StopTransaction and returns true.
C15_StopPreconditions ==
    [][\A t \in DOMAIN th :
          /\ StopEnters(t) =>
                IF \/ th'[t].connector_id \notin ConnectorIds
                   \/ connectors[th'[t].connector_id].transaction_id = 0
                THEN /\ th'[t].pc = "done"
                     /\ th'[t].ret = "false"
                     /\ th'[t].sent = <<>>
                     /\ th'[t].calls = {}
                     /\ fifo' = fifo
                     /\ connectors' = connectors
                ELSE th'[t].pc = "stop_request"
          /\ (th[t].pc = "stop_request" /\ th'[t].pc # "stop_request") =>
                th'[t].pc = "stop_reset"
          /\ (th[t].pc = "stop_reset" /\ th'[t].pc # "stop_reset") =>
                th'[t].pc = "stop_call"
          /\ (th[t].pc = "stop_call" /\ th'[t].pc # "stop_call") =>
                /\ th'[t].pc = "done"
                /\ th'[t].ret = "true"
                /\ Len(th'[t].sent) = 1]_vars

\* A stopTransaction on connector 1 without a transaction has returned false
\* beside one that found the provisional transaction and returned true.
C15_Witness ==
    \E t, u \in DOMAIN th :
        /\ th[t].pc = "done"
        /\ th[t].op = "stop"
        /\ th[t].connector_id = 1
        /\ th[t].ret = "false"
        /\ th[u].pc = "done"
        /\ th[u].op = "stop"
        /\ th[u].ret = "true"
        /\ th[u].transactionId = -1

\* A stopTransaction that returns true returns to its caller in this step.
StopReturnsTrue(t) ==
    /\ th[t].pc = "done"
    /\ th'[t].pc = "idle"
    /\ th[t].op = "stop"
    /\ th[t].ret = "true"

\* C16: when a stopTransaction returns true, the connector holds no
\* transaction (transaction_id 0, no id-tag, no start time) and the
\* StopTransaction of the call carried the transaction_id the connector held
\* when the call began.
C16_StopRestoresIdle ==
    [][\A t \in DOMAIN th :
          StopReturnsTrue(t) =>
             /\ TransactionOf(th[t].connector_id) = <<0, "", 0>>
             /\ th[t].sent[1].transactionId = th[t].held]_vars

\* Thread t handles a RemoteStartTransaction request in this step.
RemoteStartHandled(t) == th[t].pc = "idle" /\ th'[t].op = "remote_start"

\* Thread t handles a RemoteStopTransaction request in this step.
RemoteStopHandled(t) == th[t].pc = "idle" /\ th'[t].op = "remote_stop"

\* C17: a RemoteStartTransaction request without connectorId, for connector
\* 0, for a connector that does not exist, is Unavailable or has a
\* transaction (the provisional one too), or for an id-tag the reservation
\* manager does not allow, is answered Rejected without the events handler
\* being asked.
C17_RemoteStartRejection ==
    [][\A t \in DOMAIN th :
          RemoteStartHandled(t) =>
             LET c == th'[t].connector_id
             IN (\/ c = NoConnectorId
                 \/ c = 0
                 \/ c \notin DOMAIN connectors
                 \/ connectors[c].status = "Unavailable"
                 \/ connectors[c].transaction_id # 0
                 \/ th'[t].verdict \notin {"none", "Accepted"})
                => /\ th'[t].ret = "Rejected"
                   /\ th'[t].notified = {}
                   /\ th'[t].handler = "none"
                   /\ "remoteStartTransactionRequested" \notin th'[t].calls]_vars

\* A remote start on an available connector that holds the provisional
\* transaction has been rejected.
C17_Witness ==
    \E t \in DOMAIN th :
        /\ th[t].pc = "done"
        /\ th[t].op = "remote_start"
        /\ th[t].ret = "Rejected"
        /\ th[t].connector_id \in DOMAIN connectors
        /\ connectors[th[t].connector_id].transaction_id = -1
        /\ connectors[th[t].connector_id].status = "Available"

\* C18: a RemoteStopTransaction request is answered Accepted exactly when a
\* connector holds a transaction (transaction_id not 0) with the requested
\* id and the events handler, asked for that connector, said yes; without
\* such a connector the answer is Rejected and the events handler is not
\* asked; the events handler is asked for one connector at most, which
\* holds the requested transaction.
C18_RemoteStop ==
    [][\A t \in DOMAIN th :
          RemoteStopHandled(t) =>
             LET id == th'[t].transactionId
                 holders == {c \in DOMAIN connectors :
                                connectors[c].transaction_id # 0
                                /\ connectors[c].transaction_id = id}
             IN /\ (th'[t].ret = "Accepted") <=>
                      (\E c \in holders : c \in th'[t].notified /\ th'[t].handler = "true")
                /\ th'[t].ret \in {"Accepted", "Rejected"}
                /\ holders = {} => /\ th'[t].ret = "Rejected"
                                    /\ th'[t].notified = {}
                                    /\ th'[t].handler = "none"
                /\ holders # {} => th'[t].notified # {}
                /\ th'[t].notified \subseteq holders
                /\ Cardinality(th'[t].notified) <= 1]_vars

\* A remote stop of the provisional id held by two connectors has been
\* accepted, the events handler asked for the first of them.
C18_Witness ==
    \E t \in DOMAIN th :
        /\ th[t].pc = "done"
        /\ th[t].op = "remote_stop"
        /\ th[t].ret = "Accepted"
        /\ th[t].transactionId = -1
        /\ th[t].notified = {1}
        /\ connectors[1].transaction_id = -1
        /\ connectors[2].transaction_id = -1

\* C19: handling a RemoteStartTransaction or a RemoteStopTransaction
\* request, accepted or rejected, makes no StartTransaction or
\* StopTransaction request, leaves the FIFO as it is and leaves the
\* transaction of every connector as it is.
C19_RemoteNoEffect ==
    [][\A t \in DOMAIN th :
          (RemoteStartHandled(t) \/ RemoteStopHandled(t)) =>
             /\ th'[t].sent = <<>>
             /\ th'[t].pc = "done"
             /\ fifo' = fifo
             /\ nextSeq' = nextSeq
             /\ \A c \in DOMAIN connectors :
                   TransactionOf(c)' = TransactionOf(c)]_vars

\* A remote start has been accepted on a connector, which has no
\* transaction yet.
C19_Witness ==
    \E t \in DOMAIN th :
        /\ th[t].pc = "done"
        /\ th[t].op = "remote_start"
        /\ th[t].ret = "Accepted"
        /\ th[t].handler = "true"
        /\ connectors[th[t].connector_id].transaction_id = 0
        /\ fifo = <<>>

\* The statuses in which a connector takes no session.
OutOfServiceStatuses == {"Unavailable", "Faulted"}

\* C20: no connector whose status is Unavailable or Faulted holds a
\* transaction: transaction_id is 0 on every connector that is out of
\* service.
C20_TransactionStatus ==
    \A c \in DOMAIN connectors :
        connectors[c].transaction_id # 0 => connectors[c].status \notin OutOfServiceStatuses

\* C21: a startTransaction that goes on to its request, on a connector whose
\* status is Reserved, stamps the reservation_id of that connector and ends
\* the reservation of that connector; otherwise, when
\* reserveConnectorZeroSupported is set, the charge point is Reserved and the
\* reservation manager allows the id-tag on connector 0, it stamps the
\* reservation_id of the charge point and calls clearReservation for the
\* connector of the call; in every other case it stamps nothing and calls
\* no clearReservation.  The StartTransaction request carries what was
\* stamped.
C21_ReservationConsumption ==
    [][\A t \in DOMAIN th :
          /\ (StartEnters(t) /\ th'[t].pc = "start_call") =>
                LET c == th'[t].connector_id
                IN IF connectors[c].status = "Reserved"
                   THEN /\ th'[t].reservationId = connectors[c].reservation_id
                        /\ th'[t].calls = {"clearReservation"}
                        /\ connectors'[c].status = "Available"
                        /\ connectors'[c].reservation_id = 0
                        /\ \A d \in DOMAIN connectors \ {c} : connectors'[d] = connectors[d]
                   ELSE IF /\ reserveConnectorZeroSupported
                           /\ connectors[CONNECTOR_ID_CHARGE_POINT].status = "Reserved"
                           /\ th'[t].verdict = "Accepted"
                        THEN /\ th'[t].reservationId =
                                  connectors[CONNECTOR_ID_CHARGE_POINT].reservation_id
                             /\ th'[t].calls = {"clearReservation"}
                             /\ connectors'[c].reservation_id = 0
                             /\ connectors'[c].status # "Reserved"
                             /\ connectors'[CONNECTOR_ID_CHARGE_POINT] =
                                  connectors[CONNECTOR_ID_CHARGE_POINT]
                        ELSE /\ th'[t].reservationId = 0
                             /\ th'[t].calls = {}
                             /\ connectors' = connectors
          /\ (th[t].pc = "start_call" /\ th'[t].pc # "start_call") =>
                /\ th'[t].sent[1].action = START_TRANSACTION_ACTION
                /\ th'[t].sent[1].reservationId = th[t].reservationId]_vars

\* A StartTransaction request has been made with the reservation_id of the
\* charge point, which is still reserved, for a connector that was not.
C21_Witness ==
    \E t \in DOMAIN th :
        /\ th[t].op = "start"
        /\ Len(th[t].sent) >= 1
        /\ th[t].sent[1].reservationId = ReservationIdOf(CONNECTOR_ID_CHARGE_POINT)
        /\ "clearReservation" \in th[t].calls
        /\ connectors[CONNECTOR_ID_CHARGE_POINT].status = "Reserved"

\* The thread is at a call of the message sender.
InSenderCall(r) == r.pc \in {"start_call", "start_refused", "stop_call"}

\* The connectors whose mutex thread t holds.
HeldBy(t) == {c \in DOMAIN connectors : connectors[c].mutex = t}

\* C22: a thread that is at a call of the message sender, or that makes one,
\* holds no connector mutex; and the transaction_id, start time and id-tag
\* of a connector change (and are saved) only in a step of a thread that
\* holds the mutex of that connector before and after the step.
C22_LockingDiscipline ==
    [][/\ \A t \in DOMAIN th :
            /\ InSenderCall(th'[t]) => HeldBy(t)' = {}
            /\ th'[t].sent # th[t].sent => HeldBy(t) = {}
       /\ \A c \in DOMAIN connectors :
            TransactionOf(c)' # TransactionOf(c) =>
               \E t \in DOMAIN th :
                   /\ connectors[c].mutex = t
                   /\ connectors'[c].mutex = t
                   /\ th[t].connector_id = c
                   /\ th[t].pc \in {"start_locked", "stop_locked"}]_vars

\* A thread holds the mutex of connector 1, which it has written, while
\* the other thread is at the call of its StopTransaction for that
\* connector.
C22_Witness ==
    \E t, u \in DOMAIN th :
        /\ th[t].pc = "start_unlock"
        /\ connectors[1].mutex = t
        /\ connectors[1].transaction_id # 0
        /\ th[u].pc = "stop_call"
        /\ th[u].connector_id = 1

\* C24: no worker makes a call of the message sender while the retry timer
\* is armed; that holds for the first call of a job queued by
\* updateConnectionStatus(true) too.
C24_NoSendWhileTimerArmed ==
    [][\A w \in Workers : DrainSends(w) => ~timerArmed]_vars

\* A worker drops the head after the failed send that exhausted the retries.
DrainDrops(w) ==
    /\ dr[w].pc = "retry"
    /\ dr'[w].pc = "while"
    /\ RetryExhausted(dr[w].count + 1)

\* A worker evaluates the loop condition of line 484 in this step.
DrainLoopTest(w) ==
    /\ dr[w].pc = "while"
    /\ dr'[w].pc \in {"front", "idle"}
    /\ UNCHANGED <<connected, fifo, retryCount, timerArmed>>

\* C25: every pop (after a successful send or after the retries are
\* exhausted) sets the retry count to 0, and a job whose last send succeeded
\* ends with the retry count 0; a drop leaves the timer as it is and takes
\* the worker to the loop test, and at the loop test the worker goes on to
\* the next entry in the same job when the FIFO is not empty, the timer is
\* not armed and the transport is connected.
C25_RetryResetAndContinuation ==
    [][\A w \in Workers :
          /\ DrainPops(w) => retryCount' = 0
          /\ (dr[w].pc = "result" /\ dr[w].res = "Ok" /\ dr'[w].pc = "while") =>
                (retryCount' = 0 /\ fifo' = Pop(fifo))
          /\ (DrainLoopTest(w) /\ dr[w].res = "Ok" /\ dr'[w].pc = "idle") =>
                retryCount = 0
          /\ DrainDrops(w) =>
                (retryCount' = 0 /\ timerArmed' = timerArmed /\ fifo' = Pop(fifo))
          /\ (DrainLoopTest(w) /\ fifo # <<>> /\ ~timerArmed /\ connected) =>
                (dr'[w].pc = "front" /\ poolJobs' = poolJobs)]_vars

\* Thread t resets the connector of its stopTransaction in this step.
StopResets(t) == th[t].pc = "stop_reset" /\ th'[t].pc = "stop_call"

\* Thread t makes the call of its StopTransaction in this step.
StopSends(t) == th[t].pc = "stop_call" /\ th'[t].pc = "done"

\* C26: stopTransaction resets (and saves) the connector before it makes
\* the call of its StopTransaction: the reset step writes transaction_id 0,
\* no id-tag and no start time and sends nothing, and the request prepared
\* carries the transaction_id the connector held before the reset.  The call
\* step makes exactly one request, that StopTransaction, and sets the
\* return value to true with the connector idle whatever the result; a
\* successful call leaves the FIFO as it is, a failed one appends exactly
\* one StopTransaction entry with the transaction_id of before the reset.
C26_StopResetsBeforeSend ==
    [][\A t \in DOMAIN th :
          LET c == th[t].connector_id
          IN /\ StopResets(t) =>
                   /\ TransactionOf(c)' = <<0, "", 0>>
                   /\ th[t].transactionId = connectors[c].transaction_id
                   /\ th[t].transactionId # 0
                   /\ th'[t].sent = <<>>
                   /\ fifo' = fifo
             /\ StopSends(t) =>
                   /\ th[t].sent = <<>>
                   /\ Len(th'[t].sent) = 1
                   /\ th'[t].sent[1].action = STOP_TRANSACTION_ACTION
                   /\ th'[t].sent[1].transactionId = th[t].transactionId
                   /\ th'[t].ret = "true"
                   /\ TransactionOf(c)' = <<0, "", 0>>
                   /\ th'[t].result = "Ok" => fifo' = fifo
                   /\ th'[t].result # "Ok" =>
                         /\ Len(fifo') = Len(fifo) + 1
                         /\ SubSeq(fifo', 1, Len(fifo)) = fifo
                         /\ fifo'[Len(fifo')].action = STOP_TRANSACTION_ACTION
                         /\ fifo'[Len(fifo')].transactionId = th[t].transactionId]_vars

\* C27: no stopTransaction emits a StopTransaction with transactionId 0,
\* whether the request is sent or put in the FIFO: a call that finds the
\* transaction already stopped by another call sends nothing and does not
\* return true.
C27_NoDuplicateStop ==
    [][\A t \in DOMAIN th :
          StopSends(t) =>
             /\ th'[t].sent[Len(th'[t].sent)].transactionId # 0
             /\ \A i \in 1..Len(fifo') :
                   fifo'[i].action = STOP_TRANSACTION_ACTION =>
                      fifo'[i].transactionId # 0]_vars

\* A worker makes the first send of the entry at the head of the FIFO.
DrainFirstSend(w) ==
    /\ DrainSends(w)
    /\ fifo # <<>>
    /\ Head(fifo).seq = dr[w].head.seq
    /\ attempts = 0

\* C28: whenever no job of processFifoRequest is running the retry count is
\* in 0..TransactionMessageAttempts, and the retry count is 0 when the
\* entry at the head of the FIFO is sent for the first time: no entry
\* starts with the failures of the entry before it.
C28_RetryCreditPerEntry ==
    [][/\ RunningWorkers' = {} => retryCount' \in 0..TransactionMessageAttempts
       /\ \A w \in Workers : DrainFirstSend(w) => retryCount = 0]_vars

====
